---- MODULE Spec2Model ----
(***************************************************************************)
(* PharmaSoft storefront: the user document kept by the REST service       *)
(* (cart, orders, addresses) and the browser-side cart/session module,     *)
(* modelled from src/script.js.                                            *)
(*                                                                         *)
(* Money.  Prices are whole paise (1/100 rupee).  Computed amounts are     *)
(* kept in twentieths of a paisa (1/2000 rupee) so that the 5% tax is      *)
(* exact; toFixed(2) is rounding to a whole paisa.  JavaScript doubles are *)
(* modelled by exact arithmetic.                                           *)
(***************************************************************************)
EXTENDS Integers, Sequences, FiniteSets, TLC

VARIABLES
  addresses,   \* req.user.addresses of the one user document
  userCart,    \* req.user.cart
  orders,      \* req.user.orders
  last,        \* the response the service sent last: [op, status, calculations]
  cart,        \* the client's in-memory cart (let cart)
  cache,       \* localStorage[STORAGE.CART_CACHE]
  token,       \* localStorage[STORAGE.TOKEN] is present
  totals,      \* the totals the client computed last (const totals), <<>> before the first
  leaving,     \* window.location.href was assigned by auth.logout: the page is being left
  ret,         \* the client function that completed last and how: [op, result]
  payments,    \* the payments processPayment has started, oldest first: [amount]
  flights      \* the requests under way that overlap: their stage, input and copies

vars == <<addresses, userCart, orders, last, cart, cache, token, totals, leaving, ret,
          payments, flights>>
serverVars == <<addresses, userCart, orders, last>>
clientVars == <<cart, cache, token, totals, leaving, ret, payments>>

----------------------------------------------------------------------------
(* Bounds *)

MaxAddr == 2      \* addresses a user may hold in the model
MaxQty == 2       \* largest quantity of one cart item
MaxOrders == 2    \* orders a user may hold in the model
MaxItems == 2     \* items of a cart given to calculateCartTotal directly

----------------------------------------------------------------------------
(* Inputs *)

Names == {"A", "B"}
TotalsNames == {"A", "B", "C"}
ShopNames == {"A"}

\* the price printed on each product card, in paise
PriceOf(name) == IF name = "A" THEN 30000 ELSE 15

\* quantities a request may carry
QtyInputs == (-1)..MaxQty

\* quantities of the requests that reach the full user document
ShopQty == 0..MaxQty

\* prices of the carts given to calculateCartTotal directly, in paise
Prices == {15, 25000, 50000, 50100}

----------------------------------------------------------------------------
(* Cart totals *)

TaxDivisor == 20            \* tax = subtotal * 0.05
FreeDeliveryAbove == 500    \* rupees
DeliveryCharge == 50        \* rupees
PaisePerRupee == 100

RECURSIVE SumItems(_)
\* cartItems.reduce((sum, item) => sum + item.price * item.quantity, 0), in paise
SumItems(items) ==
  IF items = <<>> THEN 0
  ELSE Head(items).price * Head(items).quantity + SumItems(Tail(items))

DeliveryFee_Geq(subtotal) ==
  IF subtotal >= FreeDeliveryAbove * PaisePerRupee THEN 0 ELSE DeliveryCharge * PaisePerRupee

\* subtotal > 500 ? 0 : 50, subtotal and result in paise
DeliveryFee(subtotal) ==
  IF subtotal > FreeDeliveryAbove * PaisePerRupee THEN 0 ELSE DeliveryCharge * PaisePerRupee

\* the four amounts before any rounding, in twentieths of a paisa
RawTotals(items) ==
  LET subtotal == SumItems(items)
      deliveryFee == DeliveryFee(subtotal)
      tax == subtotal                       \* subtotal * 0.05 paise
      total == subtotal * TaxDivisor + deliveryFee * TaxDivisor + tax
  IN [subtotal |-> subtotal * TaxDivisor,
      deliveryFee |-> deliveryFee * TaxDivisor,
      tax |-> tax,
      total |-> total]

ToFixed2_Trunc(x) ==
  IF x >= 0 THEN (x \div TaxDivisor) * TaxDivisor
  ELSE -(((-x) \div TaxDivisor) * TaxDivisor)

\* parseFloat(x.toFixed(2)): the nearest whole paisa, halves away from zero
ToFixed2(x) ==
  IF x >= 0 THEN ((x + TaxDivisor \div 2) \div TaxDivisor) * TaxDivisor
  ELSE -(((-x + TaxDivisor \div 2) \div TaxDivisor) * TaxDivisor)

\* calculateCartTotal of the service
calculateCartTotal(cartItems) ==
  LET r == RawTotals(cartItems)
  IN [subtotal |-> ToFixed2(r.subtotal),
      deliveryFee |-> ToFixed2(r.deliveryFee),
      tax |-> ToFixed2(r.tax),
      total |-> ToFixed2(r.total)]

\* calculateCartTotal of the client, over its in-memory cart
clientCalculateCartTotal(c) == RawTotals(c)

ZeroTotals == [subtotal |-> 0, deliveryFee |-> 0, tax |-> 0, total |-> 0]

----------------------------------------------------------------------------
(* The service: responses *)

\* what the service answered last; calculations is <<>> when the response has none
Response(op, status, calculations) ==
  [op |-> op, status |-> status, calculations |-> calculations]

NoResponse == Response("none", 0, <<>>)

----------------------------------------------------------------------------
(* Text fields checked character by character                                *)
(*                                                                           *)
(* A phone number or a pincode is a sequence of characters, each given by    *)
(* its class: "d" a digit 0-9, "s" a whitespace character, "x" any other.    *)

PhoneDigits == 10           \* /^[0-9]{10}$/
PincodeDigits == 6          \* /^[0-9]{6}$/

Digits(n) == [i \in 1..n |-> "d"]

RECURSIVE TrimStart(_)
TrimStart(str) ==
  IF str # <<>> /\ Head(str) = "s" THEN TrimStart(Tail(str)) ELSE str

RECURSIVE TrimEnd(_)
TrimEnd(str) ==
  IF str # <<>> /\ str[Len(str)] = "s" THEN TrimEnd(SubSeq(str, 1, Len(str) - 1)) ELSE str

\* String.prototype.trim
Trim(str) == TrimEnd(TrimStart(str))

\* str.replace(/\s/g, '')
RemoveWhitespace(str) == SelectSeq(str, LAMBDA ch : ch # "s")

\* /^[0-9]{n}$/.test(str)
IsDigits(str, n) == Len(str) = n /\ \A i \in DOMAIN str : str[i] = "d"

\* the address fields the model keeps character by character
TextFields == {"phone", "pincode"}

----------------------------------------------------------------------------
(* The service: addresses *)

\* req.user.addresses.forEach(addr => addr.isDefault = false)
ClearDefaults(addrs) ==
  [i \in DOMAIN addrs |-> [addrs[i] EXCEPT !.isDefault = FALSE]]

\* Object.assign(target, source) on the fields of the address schema
ObjectAssign(target, source) ==
  [f \in DOMAIN target |-> IF f \in DOMAIN source THEN source[f] ELSE target[f]]

\* updates.isDefault is truthy
WantsDefault(updates) == "isDefault" \in DOMAIN updates /\ updates.isDefault

\* const newAddress = { name: name.trim(), phone: phone.trim(), ..., isDefault }
\* for the fields the request body has in the model; name stands for the text
\* fields that are not looked into
NewAddress(body, becomesDefault) ==
  [f \in DOMAIN body |->
     IF f = "isDefault" THEN becomesDefault
     ELSE IF f \in TextFields THEN Trim(body[f])
     ELSE body[f]]

\* !name || !phone || !address || !city || !state || !pincode
MissingField(body) ==
  \/ body.name = ""
  \/ \E f \in TextFields \cap DOMAIN body : body[f] = <<>>

AddressesAfterPost_NoClear(addrs, body) ==
  Append(addrs, NewAddress(body, body.isDefault \/ Len(addrs) = 0))

\* POST /api/addresses after validation: clear the flags when the new address
\* becomes the default, then push it
AddressesAfterPost(addrs, body) ==
  LET becomesDefault == body.isDefault \/ Len(addrs) = 0
      kept == IF becomesDefault THEN ClearDefaults(addrs) ELSE addrs
  IN Append(kept, NewAddress(body, becomesDefault))

AddressesAfterPut_NoClear(addrs, idx, updates) ==
  [addrs EXCEPT ![idx] = ObjectAssign(addrs[idx], updates)]

\* PUT /api/addresses/:id once the address is found at idx
AddressesAfterPut(addrs, idx, updates) ==
  LET kept == IF WantsDefault(updates) THEN ClearDefaults(addrs) ELSE addrs
  IN [kept EXCEPT ![idx] = ObjectAssign(kept[idx], updates)]

RECURSIVE RemoveAt(_, _)
\* addresses.filter((addr, idx) => idx.toString() !== id), idx counted from 1
RemoveAt(s, idx) ==
  IF s = <<>> THEN <<>>
  ELSE IF idx = 1 THEN Tail(s)
  ELSE <<Head(s)>> \o RemoveAt(Tail(s), idx - 1)

\* request bodies of POST /api/addresses; name "" stands for a missing required field
AddressBodies == [name : {"home", ""}, isDefault : BOOLEAN]

\* request bodies of PUT /api/addresses/:id
AddressUpdates ==
  {[isDefault |-> TRUE], [isDefault |-> FALSE], [name |-> "work"]}

\* the :id of a request, as a position counted from 1; MaxAddr + 1 matches nothing
AddressIds == 1..(MaxAddr + 1)

GetAddresses ==
  /\ last' = Response("GET /addresses", 200, <<>>)
  /\ UNCHANGED <<addresses, userCart, orders>>

PostAddresses(body) ==
  IF MissingField(body)
  THEN /\ last' = Response("POST /addresses", 400, <<>>)
       /\ UNCHANGED <<addresses, userCart, orders>>
  ELSE /\ Len(addresses) < MaxAddr
       /\ addresses' = AddressesAfterPost(addresses, body)
       /\ last' = Response("POST /addresses", 200, <<>>)
       /\ UNCHANGED <<userCart, orders>>

PutAddresses_Shared(id, updates) ==
  IF id \notin DOMAIN addresses
  THEN /\ last' = Response("PUT /addresses", 404, <<>>)
       /\ UNCHANGED <<addresses, userCart, orders>>
  ELSE /\ addresses' = AddressesAfterPut(addresses, id, updates)
       /\ orders' = [i \in DOMAIN orders |->
                       IF orders[i].deliveryAddress = <<addresses[id]>>
                       THEN [orders[i] EXCEPT !.deliveryAddress = <<addresses'[id]>>]
                       ELSE orders[i]]
       /\ last' = Response("PUT /addresses", 200, <<>>)
       /\ UNCHANGED <<userCart>>

PutAddresses(id, updates) ==
  IF id \notin DOMAIN addresses
  THEN /\ last' = Response("PUT /addresses", 404, <<>>)
       /\ UNCHANGED <<addresses, userCart, orders>>
  ELSE /\ addresses' = AddressesAfterPut(addresses, id, updates)
       /\ last' = Response("PUT /addresses", 200, <<>>)
       /\ UNCHANGED <<userCart, orders>>

DeleteAddresses(id) ==
  /\ addresses' = IF id \in DOMAIN addresses THEN RemoveAt(addresses, id) ELSE addresses
  /\ last' = Response("DELETE /addresses", 200, <<>>)
  /\ UNCHANGED <<userCart, orders>>

----------------------------------------------------------------------------
(* The service: cart *)

\* cart.findIndex(item => item.name === name), counted from 1; 0 when there is none
FindIndex(c, name) ==
  IF \E i \in DOMAIN c : c[i].name = name
  THEN CHOOSE i \in DOMAIN c :
         /\ c[i].name = name
         /\ \A j \in DOMAIN c : c[j].name = name => i <= j
  ELSE 0

\* cart.filter(item => item.name !== name)
WithoutName(c, name) == SelectSeq(c, LAMBDA item : item.name # name)

\* POST /api/cart/add after validation
CartAfterAdd(c, name, price) ==
  LET i == FindIndex(c, name)
  IN IF i > 0
     THEN [c EXCEPT ![i].quantity = @ + 1]
     ELSE Append(c, [name |-> name, price |-> price, quantity |-> 1])

\* PUT /api/cart/update
CartAfterUpdate(c, name, quantity) ==
  IF quantity = 0
  THEN WithoutName(c, name)
  ELSE LET i == FindIndex(c, name)
       IN IF i > 0 THEN [c EXCEPT ![i].quantity = quantity] ELSE c

\* the quantity POST /api/cart/add would leave on the item stays within the model
AddFits(c, name) ==
  LET i == FindIndex(c, name) IN i > 0 => c[i].quantity < MaxQty

GetCart ==
  /\ last' = Response("GET /cart", 200, <<calculateCartTotal(userCart)>>)
  /\ UNCHANGED <<addresses, userCart, orders>>

PostCartAdd_NoCheck(name, price) ==
  /\ AddFits(userCart, name)
  /\ userCart' = CartAfterAdd(userCart, name, price)
  /\ last' = Response("POST /cart/add", 200, <<calculateCartTotal(userCart')>>)
  /\ UNCHANGED <<addresses, orders>>

\* name "" and price 0 stand for a missing (falsy) field
PostCartAdd(name, price) ==
  IF name = "" \/ price = 0
  THEN /\ last' = Response("POST /cart/add", 400, <<>>)
       /\ UNCHANGED <<addresses, userCart, orders>>
  ELSE /\ AddFits(userCart, name)
       /\ userCart' = CartAfterAdd(userCart, name, price)
       /\ last' = Response("POST /cart/add", 200, <<calculateCartTotal(userCart')>>)
       /\ UNCHANGED <<addresses, orders>>

PutCartUpdate(name, quantity) ==
  /\ userCart' = CartAfterUpdate(userCart, name, quantity)
  /\ last' = Response("PUT /cart/update", 200, <<calculateCartTotal(userCart')>>)
  /\ UNCHANGED <<addresses, orders>>

DeleteCartRemove(name) ==
  /\ userCart' = WithoutName(userCart, name)
  /\ last' = Response("DELETE /cart/remove", 200, <<calculateCartTotal(userCart')>>)
  /\ UNCHANGED <<addresses, orders>>

DeleteCartClear ==
  /\ userCart' = <<>>
  /\ last' = Response("DELETE /cart/clear", 200, <<ZeroTotals>>)
  /\ UNCHANGED <<addresses, orders>>

----------------------------------------------------------------------------
(* The service: orders *)

\* req.user.addresses.find(a => a.isDefault): <<the address>>, or <<>> for undefined
DefaultAddress(addrs) ==
  LET defaults == SelectSeq(addrs, LAMBDA a : a.isDefault)
  IN IF defaults = <<>> THEN <<>> ELSE <<Head(defaults)>>

\* a body field that is present and not a falsy value ("" stands for the falsy
\* values a JSON body can carry; an omitted field is undefined)
Truthy(body, field) == field \in DOMAIN body /\ body[field] # ""

\* paymentMethod || 'cod'
StoredPaymentMethod(body) ==
  IF Truthy(body, "paymentMethod") THEN body.paymentMethod ELSE "cod"

\* paymentMethod === 'cod' ? 'pending' : 'completed', over the field as sent
PaymentStatus(body) ==
  IF "paymentMethod" \in DOMAIN body /\ body.paymentMethod = "cod"
  THEN "pending" ELSE "completed"

\* the order POST /api/orders builds; body.deliveryAddress is <<>> when the
\* request carries none.  The order holds copies of the cart items and of the
\* address, not references to the user's sub-documents.
NewOrder(c, addrs, body) ==
  [items |-> c,
   total |-> calculateCartTotal(c).total,
   deliveryAddress |-> IF body.deliveryAddress # <<>>
                       THEN body.deliveryAddress
                       ELSE DefaultAddress(addrs),
   paymentMethod |-> StoredPaymentMethod(body),
   paymentStatus |-> PaymentStatus(body)]

\* the request body of POST /api/orders: with the copy of the user's default
\* address that handleCheckout sends, or without an address
OrderBody(addrs, withAddress) ==
  [deliveryAddress |-> IF withAddress THEN DefaultAddress(addrs) ELSE <<>>]

PostOrders_KeepCart(body) ==
  IF userCart = <<>>
  THEN /\ last' = Response("POST /orders", 400, <<>>)
       /\ UNCHANGED <<addresses, userCart, orders>>
  ELSE /\ Len(orders) < MaxOrders
       /\ orders' = Append(orders, NewOrder(userCart, addresses, body))
       /\ last' = Response("POST /orders", 200, <<>>)
       /\ UNCHANGED <<userCart, addresses>>

PostOrders(body) ==
  IF userCart = <<>>
  THEN /\ last' = Response("POST /orders", 400, <<>>)
       /\ UNCHANGED <<addresses, userCart, orders>>
  ELSE /\ Len(orders) < MaxOrders
       /\ orders' = Append(orders, NewOrder(userCart, addresses, body))
       /\ userCart' = <<>>
       /\ last' = Response("POST /orders", 200, <<>>)
       /\ UNCHANGED <<addresses>>

\* the handler sorts the loaded document's orders for the response and does not save
GetOrders ==
  /\ last' = Response("GET /orders", 200, <<>>)
  /\ UNCHANGED <<addresses, userCart, orders>>

----------------------------------------------------------------------------
(* The client: local storage *)

\* JSON.stringify of a cart: each item as the text of its fields
JsonStringify(c) == [i \in DOMAIN c |-> <<c[i].name, c[i].price, c[i].quantity>>]

\* JSON.parse of such a text
JsonParse(text) ==
  [i \in DOMAIN text |->
     [name |-> text[i][1], price |-> text[i][2], quantity |-> text[i][3]]]

\* localStorage without the CART_CACHE item
NoCache == [present |-> FALSE, data |-> <<>>]

\* localStorage.setItem(STORAGE.CART_CACHE, JSON.stringify(cartData))
CacheOf(cartData) == [present |-> TRUE, data |-> JsonStringify(cartData)]

\* getCachedCart(): cached ? JSON.parse(cached) : []
getCachedCart == IF cache.present THEN JsonParse(cache.data) ELSE <<>>

\* what a client function reports when it completes
Returned(op, result) == [op |-> op, result |-> result]

\* how the fetch of an apiCall can end: a 2xx answer, a 401/403 answer of
\* authenticateToken, or no usable answer (the request is lost)
ApiOutcomes == {"ok", "forbidden", "error"}

\* the answer of authenticateToken to a token it does not accept
Forbidden == Response("authenticateToken", 403, <<>>)

----------------------------------------------------------------------------
(* The client: cart operations *)

Max(a, b) == IF a >= b THEN a ELSE b

Products == {[name |-> n, price |-> PriceOf(n)] : n \in Names}

LocalAfterAdd_AlwaysPush(c, product) ==
  Append(c, [name |-> product.name, price |-> product.price, quantity |-> 1])

\* addToCart, guest branch: bump the quantity of the item of that name, or push
LocalAfterAdd(c, product) ==
  IF \E i \in DOMAIN c : c[i].name = product.name
  THEN [c EXCEPT ![FindIndex(c, product.name)].quantity = @ + 1]
  ELSE Append(c, [name |-> product.name, price |-> product.price, quantity |-> 1])

\* removeFromCart, guest branch
LocalAfterRemove(c, productName) == SelectSeq(c, LAMBDA item : item.name # productName)

LocalAfterUpdate_NoClamp(c, productName, quantity) ==
  [c EXCEPT ![FindIndex(c, productName)].quantity = quantity]

\* updateCartItemQuantity, guest branch, the item being in the cart
LocalAfterUpdate(c, productName, quantity) ==
  [c EXCEPT ![FindIndex(c, productName)].quantity = Max(1, quantity)]

SessionExpired_KeepsToken(op) ==
  /\ last' = Forbidden
  /\ cache' = NoCache
  /\ leaving' = TRUE
  /\ ret' = Returned(op, "caught")
  /\ UNCHANGED <<addresses, userCart, orders, cart, totals, token>>

\* apiCall answered 401 or 403: auth.logout() empties the storage and leaves the
\* page; apiCall returns undefined, reading data.cart throws, and the catch
\* of the operation leaves the in-memory cart alone
SessionExpired(op) ==
  /\ last' = Forbidden
  /\ token' = FALSE
  /\ cache' = NoCache
  /\ leaving' = TRUE
  /\ ret' = Returned(op, "caught")
  /\ UNCHANGED <<addresses, userCart, orders, cart, totals>>

\* fetch rejected: apiCall throws and the catch of the operation reports it
RequestLost(op) ==
  /\ ret' = Returned(op, "caught")
  /\ UNCHANGED <<serverVars, cart, cache, token, totals, leaving>>

\* the rest of a logged-in cart operation once the handler has answered:
\* cart = data.cart; cacheCart(cart) on 200, the catch otherwise
AdoptAnswer(op) ==
  /\ IF last'.status = 200
     THEN /\ cart' = userCart'
          /\ cache' = CacheOf(cart')
          /\ ret' = Returned(op, "done")
     ELSE /\ ret' = Returned(op, "caught")
          /\ UNCHANGED <<cart, cache>>
  /\ UNCHANGED <<token, totals, leaving>>

AddToCart(product, outcome) ==
  /\ ~leaving
  /\ UNCHANGED <<payments, flights>>
  /\ IF ~token
     THEN /\ outcome = "ok"
          /\ AddFits(cart, product.name)
          /\ cart' = LocalAfterAdd(cart, product)
          /\ cache' = CacheOf(cart')
          /\ ret' = Returned("addToCart", "done")
          /\ UNCHANGED <<serverVars, token, totals, leaving>>
     ELSE \/ /\ outcome = "ok"
             /\ PostCartAdd(product.name, product.price)
             /\ AdoptAnswer("addToCart")
          \/ /\ outcome = "forbidden"
             /\ SessionExpired("addToCart")
          \/ /\ outcome = "error"
             /\ RequestLost("addToCart")

RemoveFromCart(productName, outcome) ==
  /\ ~leaving
  /\ UNCHANGED <<payments, flights>>
  /\ IF ~token
     THEN /\ outcome = "ok"
          /\ cart' = LocalAfterRemove(cart, productName)
          /\ cache' = CacheOf(cart')
          /\ ret' = Returned("removeFromCart", "done")
          /\ UNCHANGED <<serverVars, token, totals, leaving>>
     ELSE \/ /\ outcome = "ok"
             /\ DeleteCartRemove(productName)
             /\ AdoptAnswer("removeFromCart")
          \/ /\ outcome = "forbidden"
             /\ SessionExpired("removeFromCart")
          \/ /\ outcome = "error"
             /\ RequestLost("removeFromCart")

UpdateCartItemQuantity(productName, quantity, outcome) ==
  /\ ~leaving
  /\ UNCHANGED <<payments, flights>>
  /\ IF ~token
     THEN /\ outcome = "ok"
          /\ IF FindIndex(cart, productName) > 0
             THEN /\ cart' = LocalAfterUpdate(cart, productName, quantity)
                  /\ cache' = CacheOf(cart')
             ELSE UNCHANGED <<cart, cache>>
          /\ ret' = Returned("updateCartItemQuantity", "done")
          /\ UNCHANGED <<serverVars, token, totals, leaving>>
     ELSE \/ /\ outcome = "ok"
             /\ PutCartUpdate(productName, Max(1, quantity))
             /\ AdoptAnswer("updateCartItemQuantity")
          \/ /\ outcome = "forbidden"
             /\ SessionExpired("updateCartItemQuantity")
          \/ /\ outcome = "error"
             /\ RequestLost("updateCartItemQuantity")

----------------------------------------------------------------------------
(* The client: session *)

\* loadCart of a logged-in page, by the outcome of its GET /cart; answered is
\* the response the service sent last before that request
LoadCartLoggedIn(outcome, answered) ==
  \/ /\ outcome = "ok"
     /\ GetCart
     /\ cart' = userCart
     /\ cache' = CacheOf(cart')
     /\ token' = TRUE
     /\ leaving' = FALSE
  \/ /\ outcome = "forbidden"             \* logout, then the catch reads the emptied cache
     /\ last' = Forbidden
     /\ token' = FALSE
     /\ cache' = NoCache
     /\ cart' = <<>>
     /\ leaving' = TRUE
     /\ UNCHANGED <<addresses, userCart, orders>>
  \/ /\ outcome = "error"                 \* the catch falls back on the cached cart
     /\ last' = answered
     /\ cart' = getCachedCart
     /\ token' = TRUE
     /\ leaving' = FALSE
     /\ UNCHANGED <<addresses, userCart, orders, cache>>

\* the answers of POST /api/auth/login: the token, 401 for wrong credentials,
\* or none
LoginOutcomes == {"ok", "rejected", "error"}

HandleLogin(loginOutcome, cartOutcome) ==
  /\ ~leaving
  /\ UNCHANGED <<payments, flights>>
  /\ \/ /\ loginOutcome = "ok"            \* setToken, then loadCart; returns true
        /\ LoadCartLoggedIn(cartOutcome, Response("POST /auth/login", 200, <<>>))
        /\ ret' = Returned("handleLogin", "true")
        /\ UNCHANGED totals
     \/ /\ loginOutcome = "rejected"      \* apiCall treats the 401 as an expired session
        /\ cartOutcome = "ok"
        /\ last' = Response("POST /auth/login", 401, <<>>)
        /\ token' = FALSE
        /\ cache' = NoCache
        /\ leaving' = TRUE
        /\ ret' = Returned("handleLogin", "thrown")
        /\ UNCHANGED <<addresses, userCart, orders, cart, totals>>
     \/ /\ loginOutcome = "error"
        /\ cartOutcome = "ok"
        /\ ret' = Returned("handleLogin", "thrown")
        /\ UNCHANGED <<serverVars, cart, cache, token, totals, leaving>>

\* the logout button: auth.logout() and the page it navigates to, loaded as a guest
Logout ==
  /\ ~leaving
  /\ UNCHANGED <<payments, flights>>
  /\ token
  /\ token' = FALSE
  /\ cache' = NoCache
  /\ cart' = <<>>
  /\ totals' = <<>>
  /\ ret' = Returned("loadCart", "cart")
  /\ UNCHANGED <<serverVars, leaving>>

\* DOMContentLoaded: let cart = [], then loadCart()
PageLoad(outcome) ==
  /\ IF ~token
     THEN /\ outcome = "ok"
          /\ cart' = getCachedCart
          /\ leaving' = FALSE
          /\ UNCHANGED <<serverVars, cache, token>>
     ELSE LoadCartLoggedIn(outcome, last)
  /\ totals' = <<>>
  /\ ret' = Returned("loadCart", "cart")
  /\ UNCHANGED <<payments, flights>>

NextClient ==
  \/ \E product \in Products, outcome \in ApiOutcomes : AddToCart(product, outcome)
  \/ \E name \in Names, outcome \in ApiOutcomes : RemoveFromCart(name, outcome)
  \/ \E name \in Names, quantity \in QtyInputs, outcome \in ApiOutcomes :
       UpdateCartItemQuantity(name, quantity, outcome)
  \/ \E loginOutcome \in LoginOutcomes, cartOutcome \in ApiOutcomes :
       HandleLogin(loginOutcome, cartOutcome)
  \/ Logout
  \/ \E outcome \in ApiOutcomes : PageLoad(outcome)

----------------------------------------------------------------------------
(* The client: addresses *)

\* required.filter(field => !addressData[field]?.trim()) is not empty
MissingOnClient(addressData) ==
  \/ addressData.name = ""
  \/ \E f \in TextFields : Trim(addressData[f]) = <<>>

\* the body addAddress sends: every text field trimmed
AddressBodyOf(addressData) ==
  [name |-> addressData.name,
   phone |-> Trim(addressData.phone),
   pincode |-> Trim(addressData.pincode),
   isDefault |-> addressData.isDefault]

\* the rest of an address function once the handler has answered: it returns
\* what the service sent on 200, its catch returns null or false otherwise
AddressAnswered(op) ==
  /\ ret' = Returned(op, IF last'.status = 200 THEN "done" ELSE "caught")
  /\ UNCHANGED <<cart, cache, token, totals, leaving>>

\* an address function that returns before it sends a request
AddressNotSent(op) ==
  /\ ret' = Returned(op, "null")
  /\ UNCHANGED <<serverVars, cart, cache, token, totals, leaving>>

AddAddress(addressData, outcome) ==
  /\ ~leaving
  /\ UNCHANGED <<payments, flights>>
  /\ IF \/ ~token
        \/ MissingOnClient(addressData)
        \/ ~IsDigits(RemoveWhitespace(addressData.phone), PhoneDigits)
        \/ ~IsDigits(RemoveWhitespace(addressData.pincode), PincodeDigits)
     THEN /\ outcome = "ok"
          /\ AddressNotSent("addAddress")
     ELSE \/ /\ outcome = "ok"
             /\ PostAddresses(AddressBodyOf(addressData))
             /\ AddressAnswered("addAddress")
          \/ /\ outcome = "forbidden"
             /\ SessionExpired("addAddress")
          \/ /\ outcome = "error"
             /\ RequestLost("addAddress")

UpdateAddress(addressId, updates, outcome) ==
  /\ ~leaving
  /\ UNCHANGED <<payments, flights>>
  /\ IF ~token
     THEN /\ outcome = "ok"
          /\ AddressNotSent("updateAddress")
     ELSE \/ /\ outcome = "ok"
             /\ PutAddresses(addressId, updates)
             /\ AddressAnswered("updateAddress")
          \/ /\ outcome = "forbidden"
             /\ SessionExpired("updateAddress")
          \/ /\ outcome = "error"
             /\ RequestLost("updateAddress")

DeleteAddress(addressId, outcome) ==
  /\ ~leaving
  /\ UNCHANGED <<payments, flights>>
  /\ IF ~token
     THEN /\ outcome = "ok"
          /\ AddressNotSent("deleteAddress")
     ELSE \/ /\ outcome = "ok"
             /\ DeleteAddresses(addressId)
             /\ AddressAnswered("deleteAddress")
          \/ /\ outcome = "forbidden"
             /\ SessionExpired("deleteAddress")
          \/ /\ outcome = "error"
             /\ RequestLost("deleteAddress")

----------------------------------------------------------------------------
(* The client: checkout *)

MaxPayments == 1  \* payments started in the model

\* the value of the checked payment radio button: "paypal" is a value
\* processPayment has no case for
PaymentMethods == {"cod", "razorpay", "paypal"}

\* the cases of the switch in processPayment
KnownMethods == {"razorpay", "card", "upi", "wallet", "stripe", "cod"}

\* how the payment step ends; only the Razorpay dialog can be dismissed
PaymentOutcomes == {"paid", "cancelled"}

\* return false
CheckoutFails == ret' = Returned("handleCheckout", "false")

ReturnsEarly_NoCartCheck == ~token

\* !auth.isLoggedIn(), or cart.length === 0: return false
ReturnsEarly == ~token \/ cart = <<>>

\* handleCheckout.  The outcomes are those of GET /addresses, of the payment
\* step, of POST /orders and of DELETE /cart/clear, in the order the function
\* reaches them; a step it does not reach has outcome "ok" ("paid").
HandleCheckout(method, gotAddresses, paid, posted, cleared) ==
  /\ ~leaving
  /\ UNCHANGED <<addresses, flights>>
  /\ LET defaultAddress == DefaultAddress(addresses)
         amount == clientCalculateCartTotal(cart).total
         unreached(outcomes) == \A o \in outcomes : o \in {"ok", "paid"}
         order == NewOrder(userCart, addresses,
                           [deliveryAddress |-> defaultAddress, paymentMethod |-> method])
     IN IF ReturnsEarly
        THEN \* not logged in, or nothing to order
             /\ unreached({gotAddresses, paid, posted, cleared})
             /\ CheckoutFails
             /\ UNCHANGED <<userCart, orders, last, cart, cache, token, totals, leaving, payments>>
        ELSE IF gotAddresses = "forbidden"
        THEN /\ unreached({paid, posted, cleared})
             /\ CheckoutFails
             /\ last' = Forbidden
             /\ token' = FALSE
             /\ cache' = NoCache
             /\ leaving' = TRUE
             /\ UNCHANGED <<userCart, orders, cart, totals, payments>>
        ELSE IF gotAddresses = "error"
        THEN /\ unreached({paid, posted, cleared})
             /\ CheckoutFails
             /\ UNCHANGED <<userCart, orders, last, cart, cache, token, totals, leaving, payments>>
        ELSE IF defaultAddress = <<>>
        THEN \* no address with isDefault
             /\ unreached({paid, posted, cleared})
             /\ CheckoutFails
             /\ last' = Response("GET /addresses", 200, <<>>)
             /\ UNCHANGED <<userCart, orders, cart, cache, token, totals, leaving, payments>>
        ELSE IF method \notin KnownMethods
        THEN \* processPayment throws 'Invalid payment method'
             /\ unreached({paid, posted, cleared})
             /\ CheckoutFails
             /\ last' = Response("GET /addresses", 200, <<>>)
             /\ totals' = <<clientCalculateCartTotal(cart)>>
             /\ UNCHANGED <<userCart, orders, cart, cache, token, leaving, payments>>
        ELSE /\ Len(payments) < MaxPayments
             /\ payments' = Append(payments, [amount |-> amount])
             /\ totals' = <<clientCalculateCartTotal(cart)>>
             /\ IF paid = "cancelled"
                THEN /\ method = "razorpay"
                     /\ unreached({posted, cleared})
                     /\ CheckoutFails
                     /\ last' = Response("GET /addresses", 200, <<>>)
                     /\ UNCHANGED <<userCart, orders, cart, cache, token, leaving>>
                ELSE IF posted = "forbidden"
                THEN /\ unreached({cleared})
                     /\ CheckoutFails
                     /\ last' = Forbidden
                     /\ token' = FALSE
                     /\ cache' = NoCache
                     /\ leaving' = TRUE
                     /\ UNCHANGED <<userCart, orders, cart>>
                ELSE IF posted = "error"
                THEN /\ unreached({cleared})
                     /\ CheckoutFails
                     /\ last' = Response("GET /addresses", 200, <<>>)
                     /\ UNCHANGED <<userCart, orders, cart, cache, token, leaving>>
                ELSE IF userCart = <<>>
                THEN \* POST /orders answers 400 'Cart is empty'
                     /\ unreached({cleared})
                     /\ CheckoutFails
                     /\ last' = Response("POST /orders", 400, <<>>)
                     /\ UNCHANGED <<userCart, orders, cart, cache, token, leaving>>
                ELSE \* POST /orders records the order and empties the stored cart
                     /\ Len(orders) < MaxOrders
                     /\ orders' = Append(orders, order)
                     /\ userCart' = <<>>
                     /\ IF cleared = "ok"
                        THEN /\ last' = Response("DELETE /cart/clear", 200, <<ZeroTotals>>)
                             /\ cart' = <<>>
                             /\ cache' = CacheOf(cart')
                             /\ ret' = Returned("handleCheckout", "order")
                             /\ UNCHANGED <<token, leaving>>
                        ELSE IF cleared = "forbidden"
                        THEN \* apiCall logs out and returns; the function goes on
                             /\ last' = Forbidden
                             /\ token' = FALSE
                             /\ leaving' = TRUE
                             /\ cart' = <<>>
                             /\ cache' = CacheOf(cart')
                             /\ ret' = Returned("handleCheckout", "order")
                        ELSE \* apiCall throws and the catch returns false
                             /\ CheckoutFails
                             /\ last' = Response("POST /orders", 200, <<>>)
                             /\ UNCHANGED <<cart, cache, token, leaving>>

\* the address forms a shopper fills in: a valid phone and pincode
CheckoutAddresses ==
  [name : {"home"}, phone : {Digits(PhoneDigits)}, pincode : {Digits(PincodeDigits)},
   isDefault : BOOLEAN]

ShopProducts == {[name |-> n, price |-> PriceOf(n)] : n \in ShopNames}

\* one page of a shopper and the service: cart, addresses, login and checkout
NextCheckout ==
  \/ \E product \in ShopProducts, outcome \in ApiOutcomes : AddToCart(product, outcome)
  \/ \E name \in ShopNames, outcome \in ApiOutcomes : RemoveFromCart(name, outcome)
  \/ \E name \in ShopNames, quantity \in ShopQty, outcome \in ApiOutcomes :
       UpdateCartItemQuantity(name, quantity, outcome)
  \/ \E loginOutcome \in LoginOutcomes, cartOutcome \in ApiOutcomes :
       HandleLogin(loginOutcome, cartOutcome)
  \/ Logout
  \/ \E outcome \in ApiOutcomes : PageLoad(outcome)
  \/ \E addressData \in CheckoutAddresses, outcome \in ApiOutcomes :
       AddAddress(addressData, outcome)
  \/ \E method \in PaymentMethods, gotAddresses \in ApiOutcomes, paid \in PaymentOutcomes,
        posted \in ApiOutcomes, cleared \in ApiOutcomes :
       HandleCheckout(method, gotAddresses, paid, posted, cleared)

----------------------------------------------------------------------------
(* Requests under way *)

\* the request contexts that can be open at once
Flights == {"r1", "r2"}

\* a context no request occupies
Idle == [stage |-> "idle"]

NoFlights == [f \in Flights |-> Idle]

----------------------------------------------------------------------------
(* The service, one request at a time *)

\* a user document as /api/auth/register creates it, and a fresh page
Init ==
  /\ addresses = <<>>
  /\ userCart = <<>>
  /\ orders = <<>>
  /\ last = NoResponse
  /\ cart = <<>>
  /\ cache = NoCache
  /\ token = FALSE
  /\ totals = <<>>
  /\ leaving = FALSE
  /\ ret = [op |-> "none", result |-> "none"]
  /\ payments = <<>>
  /\ flights = NoFlights

\* A request sent to the service directly: the handler runs and the page is not
\* involved.

ReqGetAddresses == GetAddresses /\ UNCHANGED <<clientVars, flights>>

ReqPostAddresses(body) == PostAddresses(body) /\ UNCHANGED <<clientVars, flights>>

ReqPutAddresses(id, updates) == PutAddresses(id, updates) /\ UNCHANGED <<clientVars, flights>>

ReqDeleteAddresses(id) == DeleteAddresses(id) /\ UNCHANGED <<clientVars, flights>>

ReqGetCart == GetCart /\ UNCHANGED <<clientVars, flights>>

ReqPostCartAdd(name, price) == PostCartAdd(name, price) /\ UNCHANGED <<clientVars, flights>>

ReqPutCartUpdate(name, quantity) == PutCartUpdate(name, quantity) /\ UNCHANGED <<clientVars, flights>>

ReqDeleteCartRemove(name) == DeleteCartRemove(name) /\ UNCHANGED <<clientVars, flights>>

ReqDeleteCartClear == DeleteCartClear /\ UNCHANGED <<clientVars, flights>>

ReqPostOrders(body) == PostOrders(body) /\ UNCHANGED <<clientVars, flights>>

ReqGetOrders == GetOrders /\ UNCHANGED <<clientVars, flights>>

AddressRequest ==
  \/ ReqGetAddresses
  \/ \E body \in AddressBodies : ReqPostAddresses(body)
  \/ \E id \in AddressIds, updates \in AddressUpdates : ReqPutAddresses(id, updates)
  \/ \E id \in AddressIds : ReqDeleteAddresses(id)

CartRequest(names, quantities) ==
  \/ ReqGetCart
  \/ \E name \in names \cup {""} : \E price \in {0, PriceOf(name)} : ReqPostCartAdd(name, price)
  \/ \E name \in names, quantity \in quantities : ReqPutCartUpdate(name, quantity)
  \/ \E name \in names : ReqDeleteCartRemove(name)
  \/ ReqDeleteCartClear

OrderRequest ==
  \/ \E withAddress \in BOOLEAN : ReqPostOrders(OrderBody(addresses, withAddress))
  \/ ReqGetOrders

\* every endpoint of the user document, the cart holding one product
Next ==
  \/ AddressRequest
  \/ CartRequest(ShopNames, ShopQty)
  \/ OrderRequest

Spec == Init /\ [][Next]_vars

\* the cart endpoints alone, over every product
NextCart == CartRequest(Names, QtyInputs)

SpecCart == Init /\ [][NextCart]_vars

\* one page and the service it talks to, one operation at a time
SpecClient == Init /\ [][NextClient]_vars

SpecCheckout == Init /\ [][NextCheckout]_vars

----------------------------------------------------------------------------
(* A shopper whose account is open in a second tab *)

\* the page of SpecCheckout, and cart requests of the same user that come from
\* another tab: they change the stored cart and this page learns nothing
NextTabs ==
  \/ \E product \in ShopProducts, outcome \in ApiOutcomes : AddToCart(product, outcome)
  \/ \E loginOutcome \in LoginOutcomes, cartOutcome \in ApiOutcomes :
       HandleLogin(loginOutcome, cartOutcome)
  \/ \E outcome \in ApiOutcomes : PageLoad(outcome)
  \/ \E addressData \in CheckoutAddresses, outcome \in ApiOutcomes :
       AddAddress(addressData, outcome)
  \/ \E method \in PaymentMethods, gotAddresses \in ApiOutcomes, paid \in PaymentOutcomes,
        posted \in ApiOutcomes, cleared \in ApiOutcomes :
       HandleCheckout(method, gotAddresses, paid, posted, cleared)
  \/ \E name \in ShopNames : ReqPostCartAdd(name, PriceOf(name))
  \/ \E name \in ShopNames, quantity \in 1..MaxQty : ReqPutCartUpdate(name, quantity)

SpecTabs == Init /\ [][NextTabs]_vars

----------------------------------------------------------------------------
(* Orders placed with every kind of request body *)

\* the paymentMethod of a request body, when it carries one
BodyMethods == {"cod", "razorpay", ""}

\* a request body of POST /api/orders that carries a paymentMethod
PaidOrderBody(addrs, withAddress, paymentMethod) ==
  [deliveryAddress |-> OrderBody(addrs, withAddress).deliveryAddress,
   paymentMethod |-> paymentMethod]

\* a user who fills the cart, keeps one address and places orders
NextOrders ==
  \/ \E name \in ShopNames : ReqPostCartAdd(name, PriceOf(name))
  \/ \E body \in AddressBodies : ReqPostAddresses(body)
  \/ \E withAddress \in BOOLEAN : ReqPostOrders(OrderBody(addresses, withAddress))
  \/ \E withAddress \in BOOLEAN, paymentMethod \in BodyMethods :
       ReqPostOrders(PaidOrderBody(addresses, withAddress, paymentMethod))

SpecOrders == Init /\ [][NextOrders]_vars

----------------------------------------------------------------------------
(* A guest page and a logged-in page given the same calls *)

\* the products on the cards of the two pages
BothProducts == {[name |-> n, price |-> PriceOf(n)] : n \in TotalsNames}

\* Each action is one call made on both pages.  The guest page is the page of
\* the client variables (no token); the logged-in page is seen through the
\* request it sends, answered 200, and the cart the service stores: its
\* branches of the three functions never read the in-memory cart.  The guest
\* part of a call is the guest branch of the function and the logged-in part is
\* the request of its other branch, as in AddToCart, RemoveFromCart and
\* UpdateCartItemQuantity.

BothAddToCart(product) ==
  /\ ~token
  /\ AddFits(cart, product.name)
  /\ cart' = LocalAfterAdd(cart, product)
  /\ cache' = CacheOf(cart')
  /\ ret' = Returned("addToCart", "done")
  /\ PostCartAdd(product.name, product.price)
  /\ UNCHANGED <<token, totals, leaving, payments, flights>>

BothRemoveFromCart(productName) ==
  /\ ~token
  /\ cart' = LocalAfterRemove(cart, productName)
  /\ cache' = CacheOf(cart')
  /\ ret' = Returned("removeFromCart", "done")
  /\ DeleteCartRemove(productName)
  /\ UNCHANGED <<token, totals, leaving, payments, flights>>

BothUpdateCartItemQuantity(productName, quantity) ==
  /\ ~token
  /\ IF FindIndex(cart, productName) > 0
     THEN /\ cart' = LocalAfterUpdate(cart, productName, quantity)
          /\ cache' = CacheOf(cart')
     ELSE UNCHANGED <<cart, cache>>
  /\ ret' = Returned("updateCartItemQuantity", "done")
  /\ PutCartUpdate(productName, Max(1, quantity))
  /\ UNCHANGED <<token, totals, leaving, payments, flights>>

NextBoth ==
  \/ \E product \in BothProducts : BothAddToCart(product)
  \/ \E productName \in TotalsNames : BothRemoveFromCart(productName)
  \/ \E productName \in TotalsNames, quantity \in QtyInputs :
       BothUpdateCartItemQuantity(productName, quantity)

SpecBoth == Init /\ [][NextBoth]_vars

----------------------------------------------------------------------------
(* The service behind authenticateToken *)

\* the Authorization header of a request: none, a bearer token jwt.verify
\* throws on (malformed or expired), or the user's token
Credentials == {"none", "invalid", "valid"}

\* authenticateToken: the status it answers with, 0 when it calls next()
authenticateToken(credential) ==
  IF credential = "none" THEN 401
  ELSE IF credential = "invalid" THEN 403
  ELSE 0

Route_NoReturn(op, credential, handler) == handler

\* app.METHOD(path, authenticateToken, handler)
Route(op, credential, handler) ==
  IF authenticateToken(credential) = 0
  THEN handler
  ELSE /\ last' = Response(op, authenticateToken(credential), <<>>)
       /\ UNCHANGED <<addresses, userCart, orders>>

ApiGetAddresses(credential) ==
  Route("GET /addresses", credential, GetAddresses) /\ UNCHANGED <<clientVars, flights>>

ApiPostAddresses(credential, body) ==
  Route("POST /addresses", credential, PostAddresses(body)) /\ UNCHANGED <<clientVars, flights>>

ApiPutAddresses(credential, id, updates) ==
  Route("PUT /addresses", credential, PutAddresses(id, updates)) /\ UNCHANGED <<clientVars, flights>>

ApiDeleteAddresses(credential, id) ==
  Route("DELETE /addresses", credential, DeleteAddresses(id)) /\ UNCHANGED <<clientVars, flights>>

ApiGetCart(credential) ==
  Route("GET /cart", credential, GetCart) /\ UNCHANGED <<clientVars, flights>>

ApiPostCartAdd(credential, name, price) ==
  Route("POST /cart/add", credential, PostCartAdd(name, price)) /\ UNCHANGED <<clientVars, flights>>

ApiPutCartUpdate(credential, name, quantity) ==
  Route("PUT /cart/update", credential, PutCartUpdate(name, quantity)) /\ UNCHANGED <<clientVars, flights>>

ApiDeleteCartRemove(credential, name) ==
  Route("DELETE /cart/remove", credential, DeleteCartRemove(name)) /\ UNCHANGED <<clientVars, flights>>

ApiDeleteCartClear(credential) ==
  Route("DELETE /cart/clear", credential, DeleteCartClear) /\ UNCHANGED <<clientVars, flights>>

ApiPostOrders(credential, body) ==
  Route("POST /orders", credential, PostOrders(body)) /\ UNCHANGED <<clientVars, flights>>

ApiGetOrders(credential) ==
  Route("GET /orders", credential, GetOrders) /\ UNCHANGED <<clientVars, flights>>

\* request bodies of PUT /api/addresses/:id that reach the guarded service
ApiUpdates == {[isDefault |-> TRUE]}

\* a request to any cart, order or address endpoint, with the given credential
ApiRequest(credential) ==
  \/ ApiGetAddresses(credential)
  \/ \E body \in AddressBodies : ApiPostAddresses(credential, body)
  \/ \E id \in AddressIds, updates \in ApiUpdates : ApiPutAddresses(credential, id, updates)
  \/ \E id \in AddressIds : ApiDeleteAddresses(credential, id)
  \/ ApiGetCart(credential)
  \/ \E name \in ShopNames \cup {""} : \E price \in {0, PriceOf(name)} :
       ApiPostCartAdd(credential, name, price)
  \/ \E name \in ShopNames, quantity \in ShopQty : ApiPutCartUpdate(credential, name, quantity)
  \/ \E name \in ShopNames : ApiDeleteCartRemove(credential, name)
  \/ ApiDeleteCartClear(credential)
  \/ \E withAddress \in BOOLEAN :
       ApiPostOrders(credential, OrderBody(addresses, withAddress))
  \/ ApiGetOrders(credential)

NextApi == \E credential \in Credentials : ApiRequest(credential)

SpecApi == Init /\ [][NextApi]_vars

----------------------------------------------------------------------------
(* The address book: the client's functions and direct requests *)

\* phone numbers typed or sent: ten digits after a space, and ten digits with
\* a space in the middle
PhoneInputs ==
  {<<"s">> \o Digits(PhoneDigits),
   Digits(PhoneDigits \div 2) \o <<"s">> \o Digits(PhoneDigits \div 2)}

\* pincodes typed or sent
PincodeInputs == {Digits(PincodeDigits)}

\* the address form, and the bodies of POST /api/addresses
AddressForms ==
  [name : {"home", ""}, phone : PhoneInputs, pincode : PincodeInputs, isDefault : BOOLEAN]

\* the bodies of PUT /api/addresses/:id: a new default, a pincode of five digits
AddressEdits == {[isDefault |-> TRUE], [pincode |-> Digits(PincodeDigits - 1)]}

NextAddresses ==
  \/ \E loginOutcome \in LoginOutcomes, cartOutcome \in ApiOutcomes :
       HandleLogin(loginOutcome, cartOutcome)
  \/ \E outcome \in ApiOutcomes : PageLoad(outcome)
  \/ \E addressData \in AddressForms, outcome \in ApiOutcomes : AddAddress(addressData, outcome)
  \/ \E id \in AddressIds, updates \in AddressEdits, outcome \in ApiOutcomes :
       UpdateAddress(id, updates, outcome)
  \/ \E id \in AddressIds, outcome \in ApiOutcomes : DeleteAddress(id, outcome)
  \/ \E body \in AddressForms : ReqPostAddresses(body)
  \/ \E id \in AddressIds, updates \in AddressEdits : ReqPutAddresses(id, updates)

SpecAddresses == Init /\ [][NextAddresses]_vars

----------------------------------------------------------------------------
(* calculateCartTotal on its own: the service answers GET /cart and the cart  *)
(* page computes its totals, over a cart both hold                            *)

\* the totals block of updateCartDisplay; it returns early on an empty cart
UpdateCartDisplay ==
  /\ cart # <<>>
  /\ totals' = <<clientCalculateCartTotal(cart)>>
  /\ UNCHANGED <<serverVars, cart, cache, token, leaving, ret, payments, flights>>

HasDistinctNames(c) == \A i, j \in DOMAIN c : c[i].name = c[j].name => i = j

\* carts of at most MaxItems items
TotalsCarts ==
  LET Items == [name : TotalsNames, price : Prices, quantity : 1..MaxQty]
  IN {c \in UNION {[1..n -> Items] : n \in 0..MaxItems} : HasDistinctNames(c)}

\* a logged-in page that has loaded the cart the service holds
InitTotals ==
  /\ userCart \in TotalsCarts
  /\ cart = userCart
  /\ cache = CacheOf(userCart)
  /\ token = TRUE
  /\ totals = <<>>
  /\ leaving = FALSE
  /\ ret = [op |-> "loadCart", result |-> "cart"]
  /\ payments = <<>>
  /\ flights = NoFlights
  /\ addresses = <<>>
  /\ orders = <<>>
  /\ last = NoResponse

NextTotals ==
  \/ ReqGetCart
  \/ UpdateCartDisplay

SpecTotals == InitTotals /\ [][NextTotals]_vars

----------------------------------------------------------------------------
(* The service, two cart requests of one user at a time                     *)
(*                                                                          *)
(* authenticateToken loads the user document into req.user, the handler     *)
(* edits that copy and req.user.save() writes it back; the handlers await,  *)
(* so a second request can load between the load and the save of the first. *)
(* save() is Mongoose's: it writes the paths the handler modified, and the  *)
(* schema leaves versionKey at its default, so the version key __v guards   *)
(* array positions and nothing else.                                        *)

\* the stored carts a request can find: products at their prices, names distinct
RaceCarts ==
  LET Items == {[name |-> n, price |-> PriceOf(n), quantity |-> q] :
                  n \in Names, q \in 1..MaxQty}
  IN {c \in UNION {[1..n -> Items] : n \in 0..Cardinality(Names)} : HasDistinctNames(c)}

\* the cart-mutating requests: [op, name, quantity]
RaceRequests ==
  {[op |-> "POST /cart/add", name |-> n, quantity |-> 1] : n \in Names}
    \cup {[op |-> "PUT /cart/update", name |-> n, quantity |-> q] : n \in Names, q \in ShopQty}
    \cup {[op |-> "DELETE /cart/remove", name |-> n, quantity |-> 0] : n \in Names}
    \cup {[op |-> "DELETE /cart/clear", name |-> "", quantity |-> 0]}

\* req.user.cart once the handler has edited the copy it loaded
Edited(c, request) ==
  IF request.op = "POST /cart/add"
  THEN CartAfterAdd(c, request.name, PriceOf(request.name))
  ELSE IF request.op = "PUT /cart/update"
  THEN CartAfterUpdate(c, request.name, request.quantity)
  ELSE IF request.op = "DELETE /cart/remove"
  THEN WithoutName(c, request.name)
  ELSE <<>>

\* what the handler modified on its copy: the quantity of one item ("set"), a
\* pushed item ("push"), the whole array ("array"), or nothing
SaveKind(c, request) ==
  IF Edited(c, request) = c THEN "none"
  ELSE IF Len(Edited(c, request)) > Len(c) THEN "push"
  ELSE IF Len(Edited(c, request)) = Len(c) THEN "set"
  ELSE "array"

\* save() adds __v to its condition: a write to an array position or of the
\* whole array
ChecksVersion(kind) == kind \in {"set", "array"}

BumpsVersion_Every(kind) == kind # "none"

\* save() increments __v: a push or a write of the whole array
BumpsVersion(kind) == kind \in {"push", "array"}

\* the stored cart after save() has written what the handler modified
Saved(stored, c, request) ==
  LET kind == SaveKind(c, request)
      i == FindIndex(c, request.name)
  IN IF kind = "push" THEN Append(stored, Edited(c, request)[Len(c) + 1])
     ELSE IF kind = "set"
     THEN [stored EXCEPT ![i].quantity = Edited(c, request)[i].quantity]
     ELSE IF kind = "array" THEN Edited(c, request)
     ELSE stored

\* authenticateToken: User.findById gives the request its copy of the document
RaceAuthenticate(f, request) ==
  /\ flights[f] = Idle
  /\ request.op = "POST /cart/add" => AddFits(userCart, request.name)
  /\ flights' = [flights EXCEPT ![f] =
                   [stage |-> "loaded", request |-> request, user |-> userCart,
                    moved |-> FALSE]]
  /\ UNCHANGED <<serverVars, clientVars>>

\* the handler of a loaded request: edit the copy, save, answer with the copy
\* (500 when save throws a VersionError); moved records that __v has been
\* incremented since the request loaded
RaceHandle(f, op) ==
  /\ flights[f].stage = "loaded"
  /\ flights[f].request.op = op
  /\ LET request == flights[f].request
         c == flights[f].user
         kind == SaveKind(c, request)
         rejected == ChecksVersion(kind) /\ flights[f].moved
         status == IF rejected THEN 500 ELSE 200
     IN /\ userCart' = IF rejected THEN userCart ELSE Saved(userCart, c, request)
        /\ last' = Response(op, status,
                            IF rejected THEN <<>>
                            ELSE IF op = "DELETE /cart/clear" THEN <<ZeroTotals>>
                            ELSE <<calculateCartTotal(Edited(c, request))>>)
        /\ flights' = [g \in Flights |->
                         IF g = f
                         THEN [stage |-> "answered", request |-> request, user |-> c,
                               status |-> status]
                         ELSE IF flights[g].stage = "loaded" /\ ~rejected /\ BumpsVersion(kind)
                         THEN [flights[g] EXCEPT !.moved = TRUE]
                         ELSE flights[g]]

RacePostCartAdd(f) ==
  RaceHandle(f, "POST /cart/add") /\ UNCHANGED <<addresses, orders, clientVars>>

RacePutCartUpdate(f) ==
  RaceHandle(f, "PUT /cart/update") /\ UNCHANGED <<addresses, orders, clientVars>>

RaceDeleteCartRemove(f) ==
  RaceHandle(f, "DELETE /cart/remove") /\ UNCHANGED <<addresses, orders, clientVars>>

RaceDeleteCartClear(f) ==
  RaceHandle(f, "DELETE /cart/clear") /\ UNCHANGED <<addresses, orders, clientVars>>

\* a user document that holds a cart, and no request under way
InitRace ==
  /\ userCart \in RaceCarts
  /\ addresses = <<>>
  /\ orders = <<>>
  /\ last = NoResponse
  /\ cart = <<>>
  /\ cache = NoCache
  /\ token = FALSE
  /\ totals = <<>>
  /\ leaving = FALSE
  /\ ret = [op |-> "none", result |-> "none"]
  /\ payments = <<>>
  /\ flights = NoFlights

\* two requests, each loading and saving when it gets to
NextRace ==
  \/ \E f \in Flights, request \in RaceRequests : RaceAuthenticate(f, request)
  \/ \E f \in Flights : RacePostCartAdd(f)
  \/ \E f \in Flights : RacePutCartUpdate(f)
  \/ \E f \in Flights : RaceDeleteCartRemove(f)
  \/ \E f \in Flights : RaceDeleteCartClear(f)

SpecRace == InitRace /\ [][NextRace]_vars

----------------------------------------------------------------------------
(* One logged-in page whose cart requests overlap                            *)
(*                                                                           *)
(* A click handler calls addToCart without awaiting it, so the page can      *)
(* issue a request while another is under way; each request has its own      *)
(* fetch, and the answers can arrive in either order.  The service handles   *)
(* the requests one at a time here.                                          *)

\* the cart requests of the page: [op, name, quantity]
TabRequests ==
  {[op |-> "POST /cart/add", name |-> n, quantity |-> 1] : n \in ShopNames}
    \cup {[op |-> "PUT /cart/update", name |-> n, quantity |-> q] :
            n \in ShopNames, q \in 1..MaxQty}
    \cup {[op |-> "DELETE /cart/remove", name |-> n, quantity |-> 0] : n \in ShopNames}

\* the client function that sends the request
FunctionOf(op) ==
  IF op = "POST /cart/add" THEN "addToCart"
  ELSE IF op = "PUT /cart/update" THEN "updateCartItemQuantity"
  ELSE "removeFromCart"

\* a logged-in cart function up to its await: the request leaves the page
TabSend(f, request) ==
  /\ token
  /\ ~leaving
  /\ flights[f] = Idle
  /\ flights' = [flights EXCEPT ![f] = [stage |-> "sent", request |-> request]]

TabAddToCart(f, product) ==
  /\ TabSend(f, [op |-> "POST /cart/add", name |-> product.name, quantity |-> 1])
  /\ UNCHANGED <<serverVars, clientVars>>

TabRemoveFromCart(f, productName) ==
  /\ TabSend(f, [op |-> "DELETE /cart/remove", name |-> productName, quantity |-> 0])
  /\ UNCHANGED <<serverVars, clientVars>>

TabUpdateCartItemQuantity(f, productName, quantity) ==
  /\ TabSend(f, [op |-> "PUT /cart/update", name |-> productName,
                 quantity |-> Max(1, quantity)])
  /\ UNCHANGED <<serverVars, clientVars>>

\* the service handles a request that was sent; the answer, with the cart
\* the handler read and edited, is on its way
TabServe(f, op, handler) ==
  /\ flights[f].stage = "sent"
  /\ flights[f].request.op = op
  /\ handler
  /\ flights' = [flights EXCEPT ![f] =
                   [stage |-> "answered", request |-> flights[f].request,
                    user |-> userCart, status |-> last'.status]]

TabPostCartAdd(f) ==
  /\ TabServe(f, "POST /cart/add",
              PostCartAdd(flights[f].request.name, PriceOf(flights[f].request.name)))
  /\ UNCHANGED clientVars

TabPutCartUpdate(f) ==
  /\ TabServe(f, "PUT /cart/update",
              PutCartUpdate(flights[f].request.name, flights[f].request.quantity))
  /\ UNCHANGED clientVars

TabDeleteCartRemove(f) ==
  /\ TabServe(f, "DELETE /cart/remove", DeleteCartRemove(flights[f].request.name))
  /\ UNCHANGED clientVars

\* the answer arrives and the function goes on: cart = data.cart; cacheCart(cart)
TabReceive(f) ==
  /\ flights[f].stage = "answered"
  /\ flights[f].status = 200
  /\ cart' = Edited(flights[f].user, flights[f].request)
  /\ cache' = CacheOf(cart')
  /\ ret' = Returned(FunctionOf(flights[f].request.op), "done")
  /\ flights' = [flights EXCEPT ![f] = Idle]
  /\ UNCHANGED <<serverVars, token, totals, leaving, payments>>

\* a logged-in page that has loaded the empty cart of its user
InitTab ==
  /\ userCart = <<>>
  /\ cart = userCart
  /\ cache = CacheOf(userCart)
  /\ token = TRUE
  /\ totals = <<>>
  /\ leaving = FALSE
  /\ ret = [op |-> "loadCart", result |-> "cart"]
  /\ payments = <<>>
  /\ flights = NoFlights
  /\ addresses = <<>>
  /\ orders = <<>>
  /\ last = Response("GET /cart", 200, <<calculateCartTotal(<<>>)>>)

NextTab ==
  \/ \E f \in Flights, product \in ShopProducts : TabAddToCart(f, product)
  \/ \E f \in Flights, name \in ShopNames : TabRemoveFromCart(f, name)
  \/ \E f \in Flights, name \in ShopNames, quantity \in ShopQty :
       TabUpdateCartItemQuantity(f, name, quantity)
  \/ \E f \in Flights : TabPostCartAdd(f)
  \/ \E f \in Flights : TabPutCartUpdate(f)
  \/ \E f \in Flights : TabDeleteCartRemove(f)
  \/ \E f \in Flights : TabReceive(f)

SpecTab == InitTab /\ [][NextTab]_vars

----------------------------------------------------------------------------
(* Properties of the totals *)

\* fee, in twentieths of a paisa, is nothing above 500 rupees and 50 rupees otherwise
FeeRule(subtotalPaise, fee) ==
  /\ fee = 0 <=> subtotalPaise > 500 * 100
  /\ fee # 0 => fee = 50 * 2000

\* C3: calculateCartTotal, of the service and of the client, returns
\* deliveryFee = 0 exactly when the subtotal is above 500 and 50 otherwise.
C3_FreeDeliveryAbove500 ==
  /\ last.op = "GET /cart" =>
       FeeRule(SumItems(userCart), last.calculations[1].deliveryFee)
  /\ totals # <<>> => FeeRule(SumItems(cart), totals[1].deliveryFee)

\* both have computed the totals of a cart of exactly 500 rupees and charge 50
C3_Witness ==
  /\ last.op = "GET /cart"
  /\ totals # <<>>
  /\ SumItems(userCart) = 500 * 100
  /\ last.calculations[1].deliveryFee = 50 * 2000
  /\ totals[1].deliveryFee = 50 * 2000

\* the amounts of a cart before rounding, in twentieths of a paisa
ExactTotals(items) ==
  LET s == SumItems(items)
      fee == IF s > 500 * 100 THEN 0 ELSE 50 * 100
  IN [subtotal |-> 20 * s, deliveryFee |-> 20 * fee, tax |-> s,
      total |-> 20 * s + 20 * fee + s]

\* v is a whole number of paise, that is, has 2 decimals
Is2dp(v) == v % 20 = 0

\* v is e rounded to 2 decimals
IsRounded(v, e) == Is2dp(v) /\ 2 * v - 2 * e <= 20 /\ 2 * e - 2 * v <= 20

TotalsFields == {"subtotal", "deliveryFee", "tax", "total"}

\* r holds the amounts of the cart, each rounded to 2 decimals, and adds up
TotalsAsClaimed(items, r) ==
  /\ \A f \in TotalsFields : IsRounded(r[f], ExactTotals(items)[f])
  /\ r.total = r.subtotal + r.deliveryFee + r.tax

\* C4 as stated: the returned subtotal is the sum of price x quantity, the tax
\* 5% of it, the total the sum of subtotal, fee and tax, and each of the four
\* returned values is rounded to 2 decimals, for the service and the client.
C4_Original ==
  /\ last.op = "GET /cart" => TotalsAsClaimed(userCart, last.calculations[1])
  /\ totals # <<>> => TotalsAsClaimed(cart, totals[1])

\* C4, amended: the service's calculateCartTotal returns the four amounts each
\* rounded to 2 decimals on its own; the client's calculateCartTotal returns
\* them unrounded.
C4_ServerRoundsClientDoesNot ==
  /\ last.op = "GET /cart" =>
       \A f \in TotalsFields :
         IsRounded(last.calculations[1][f], ExactTotals(userCart)[f])
  /\ totals # <<>> => totals[1] = ExactTotals(cart)

\* the tax of the cart is not a whole number of paise: the service has
\* returned it rounded and the client unrounded
C4_Witness ==
  /\ last.op = "GET /cart"
  /\ totals # <<>>
  /\ ~Is2dp(totals[1].tax)
  /\ Is2dp(last.calculations[1].tax)
  /\ last.calculations[1].total # totals[1].total

----------------------------------------------------------------------------
(* Properties of the stored cart *)

\* C5: clearing the cart leaves it empty with totals 0, 0, 0, 0, in the
\* response of DELETE /cart/clear and in the totals GET /cart reports for the
\* cleared cart.
C5_ClearedCartTotalsZero ==
  [][ /\ last'.op = "DELETE /cart/clear" =>
           (userCart' = <<>> /\ last'.calculations = <<ZeroTotals>>)
      /\ (last.op = "DELETE /cart/clear" /\ last'.op = "GET /cart") =>
           last'.calculations = <<ZeroTotals>>
    ]_vars

\* C6: after any sequence of cart requests, every item of the stored cart has
\* quantity >= 1.
C6_QuantityAtLeastOne ==
  \A i \in DOMAIN userCart : userCart[i].quantity >= 1

----------------------------------------------------------------------------
(* Properties of the address list *)

DefaultIndexes(addrs) == {i \in DOMAIN addrs : addrs[i].isDefault}

\* the address at idx is the only one flagged as default
OnlyDefault(addrs, idx) == DefaultIndexes(addrs) = {idx}

\* C1: after any sequence of POST /addresses and PUT /addresses/:id requests
\* handled one at a time from an empty list, at most one stored address has
\* isDefault = true.
C1_AtMostOneDefault == Cardinality(DefaultIndexes(addresses)) <= 1

\* a POST with isDefault = true has taken the flag from the first address
C1_Witness ==
  /\ last = Response("POST /addresses", 200, <<>>)
  /\ Len(addresses) = 2
  /\ ~addresses[1].isDefault
  /\ addresses[2].isDefault

\* C2: a POST /addresses that carries isDefault = true or finds no address
\* leaves the added address as the only default; a successful PUT /addresses/:id
\* with isDefault = true leaves the updated address as the only default.
C2_NewDefaultIsOnlyDefault ==
  [][ /\ \A body \in AddressBodies :
           ( /\ PostAddresses(body)
             /\ last'.status = 200
             /\ (body.isDefault \/ addresses = <<>>) )
           => OnlyDefault(addresses', Len(addresses'))
      /\ \A id \in AddressIds, updates \in AddressUpdates :
           ( /\ PutAddresses(id, updates)
             /\ last'.status = 200
             /\ WantsDefault(updates) )
           => OnlyDefault(addresses', id)
    ]_vars

\* a PUT has answered 200 and the first of two addresses is the default while
\* the second, added later, is not
C2_Witness ==
  /\ last = Response("PUT /addresses", 200, <<>>)
  /\ Len(addresses) = 2
  /\ addresses[1] = [name |-> "home", isDefault |-> TRUE]
  /\ addresses[2] = [name |-> "work", isDefault |-> FALSE]

\* C7: from an empty cart, after any sequence of add, update-quantity and
\* remove operations handled one at a time, no two items of a cart have the same
\* name, in the guest's local cart and in the cart the service stores.
C7_NamesUnique == HasDistinctNames(cart) /\ HasDistinctNames(userCart)

\* a guest has added a product a second time next to another product, after a
\* logged-in session did the same
C7_Witness ==
  /\ ret = Returned("addToCart", "done")
  /\ ~token
  /\ Len(cart) = 2
  /\ cart[1].quantity = 2
  /\ Len(userCart) = 2
  /\ userCart[2].quantity = 2

----------------------------------------------------------------------------
(* Properties of the session *)

\* C10: when handleLogin has completed successfully, the in-memory cart and
\* the cached cart both equal the cart the service holds for the user.
C10_LoginAdoptsServerCart ==
  ret = Returned("handleLogin", "true")
    => (cart = userCart /\ getCachedCart = userCart)

----------------------------------------------------------------------------
(* Properties of the orders *)

\* C8: an order in the user's orders list is never changed or removed by a
\* later request, whatever happens to the cart and to the addresses.
C8_OrdersImmutable ==
  [][ \A i \in DOMAIN orders : i \in DOMAIN orders' /\ orders'[i] = orders[i] ]_vars

\* an order is on record with the address it was delivered to, and every
\* address has since been deleted
C8_Witness ==
  /\ orders # <<>>
  /\ orders[1].deliveryAddress # <<>>
  /\ addresses = <<>>
  /\ last.op = "DELETE /addresses"

\* C9: a successful POST /orders appends exactly one order, whose items are the
\* stored cart of before the request and whose total is calculateCartTotal of
\* that cart; it empties the stored cart and leaves the earlier orders and the
\* addresses as they were.
C9_OrderSnapshotsCart ==
  [][ (last' = Response("POST /orders", 200, <<>>) /\ orders' # orders)
      => /\ Len(orders') = Len(orders) + 1
         /\ SubSeq(orders', 1, Len(orders)) = orders
         /\ orders'[Len(orders')].items = userCart
         /\ orders'[Len(orders')].total = calculateCartTotal(userCart).total
         /\ userCart # <<>>
         /\ userCart' = <<>>
         /\ addresses' = addresses
    ]_vars

\* a second order has just been recorded
C9_Witness ==
  /\ last = Response("POST /orders", 200, <<>>)
  /\ Len(orders) = 2
  /\ orders[2].items # <<>>
  /\ userCart = <<>>

----------------------------------------------------------------------------
(* Properties of the forced logout *)

\* the statuses on which apiCall calls auth.logout()
LogoutStatuses == {401, 403}

----------------------------------------------------------------------------
(* Properties of the guarded endpoints *)

\* C12: every cart, order and address endpoint answers a request without a
\* bearer token with 401 and a request with an invalid or expired token with
\* 403, and in both cases the user document is not modified.
C12_RejectsUnauthenticated ==
  [][ /\ ApiRequest("none")
          => (last'.status = 401 /\ UNCHANGED <<addresses, userCart, orders>>)
      /\ ApiRequest("invalid")
          => (last'.status = 403 /\ UNCHANGED <<addresses, userCart, orders>>)
    ]_vars

\* the user holds a cart, an address and an order, and a POST /orders that
\* carried an invalid token has been answered 403
C12_Witness ==
  /\ last = Response("POST /orders", 403, <<>>)
  /\ userCart # <<>>
  /\ addresses # <<>>
  /\ orders # <<>>

\* C13: a request that fails validation is answered 400 and changes nothing:
\* POST /cart/add without name or price, POST /addresses with a required field
\* missing, POST /orders on an empty cart.
C13_InvalidRequestChangesNothing ==
  [][ ( \/ \E name \in ShopNames \cup {""} : \E price \in {0, PriceOf(name)} :
             /\ name = "" \/ price = 0
             /\ ApiPostCartAdd("valid", name, price)
        \/ \E body \in AddressBodies :
             /\ body.name = ""
             /\ ApiPostAddresses("valid", body)
        \/ \E withAddress \in BOOLEAN :
             /\ userCart = <<>>
             /\ ApiPostOrders("valid", OrderBody(addresses, withAddress)) )
      => (last'.status = 400 /\ UNCHANGED <<addresses, userCart, orders>>)
    ]_vars

\* the user holds a cart, an address and an order, and a POST /cart/add that
\* lacked a field has been answered 400
C13_Witness ==
  /\ last = Response("POST /cart/add", 400, <<>>)
  /\ userCart # <<>>
  /\ addresses # <<>>
  /\ orders # <<>>

----------------------------------------------------------------------------
(* Properties of overlapping requests *)

\* the request changes the quantity of the named item of the cart c and
\* nothing else
EditsQuantityOf(c, request, name) ==
  /\ request.name = name
  /\ SaveKind(c, request) = "set"

\* C14: two cart-mutating requests of one user can interleave so that each
\* loads the document before the other saves; the later save then overwrites
\* the earlier one and neither request is rejected for a conflict, so the
\* stored cart reflects only one of the two edits.  Stated of two requests
\* that each change the quantity of the same item of the cart both loaded:
\* when the second saves after the first was answered 200, it is answered 200
\* too and the stored cart is its own loaded cart with its own edit.
C14_LaterSaveOverwrites ==
  [][ \A f \in Flights, g \in Flights, name \in Names :
        ( /\ f # g
          /\ flights[g].stage = "answered"
          /\ flights[g].status = 200
          /\ flights[f].stage = "loaded"
          /\ flights[f].user = flights[g].user
          /\ EditsQuantityOf(flights[g].user, flights[g].request, name)
          /\ EditsQuantityOf(flights[f].user, flights[f].request, name)
          /\ flights'[f].stage = "answered" )
        => /\ flights'[f].status = 200
           /\ userCart' = Edited(flights[f].user, flights[f].request)
    ]_vars

\* two POST /cart/add of the product A, which both loaded the same cart
\* holding A, have both been answered 200, and the stored quantity of A is
\* one above the loaded one: one of the two additions is lost
C14_Witness ==
  /\ \A f \in Flights :
       /\ flights[f].stage = "answered"
       /\ flights[f].status = 200
       /\ flights[f].request = [op |-> "POST /cart/add", name |-> "A", quantity |-> 1]
       /\ flights[f].user = flights["r1"].user
  /\ FindIndex(flights["r1"].user, "A") > 0
  /\ FindIndex(userCart, "A") > 0
  /\ userCart[FindIndex(userCart, "A")].quantity
       = flights["r1"].user[FindIndex(flights["r1"].user, "A")].quantity + 1

\* C20: for a logged-in client in a single tab, once every cart request it
\* issued (add, remove, update, possibly overlapping, the answers arriving in
\* any order) has completed successfully, the client's in-memory cart equals
\* the cart the service stores for the user.
C20_TabCartEqualsStoredCart ==
  (token /\ \A f \in Flights : flights[f] = Idle) => cart = userCart

----------------------------------------------------------------------------
(* Properties of the cart cache *)

\* the client functions that work on the cart
CartOperations ==
  {"loadCart", "addToCart", "removeFromCart", "updateCartItemQuantity", "handleCheckout"}

\* C15: the in-memory cart is mirrored to local storage: whenever a client
\* cart operation (loadCart, addToCart, removeFromCart,
\* updateCartItemQuantity, handleCheckout) has completed, on its success path
\* or its error path, the cart read back from the local cache equals the
\* in-memory cart.
C15_CacheMirrorsCart ==
  ret.op \in CartOperations => getCachedCart = cart

\* the client functions that have a guest branch
GuestOperations == {"addToCart", "removeFromCart", "updateCartItemQuantity"}

\* C16: while no user is logged in, the cached cart is changed only by the
\* guest branches of addToCart, removeFromCart and updateCartItemQuantity,
\* which send no request; in particular a login attempt the service rejects
\* leaves the cached guest cart unchanged.
C16_GuestCachePersists ==
  [][ (~token /\ ~token')
      => /\ cache' # cache => (ret'.op \in GuestOperations /\ last' = last)
         /\ (ret'.op = "handleLogin" /\ ret'.result = "thrown") => cache' = cache
    ]_vars

----------------------------------------------------------------------------
(* Properties of the checkout *)

\* the three conditions of handleCheckout, as the call finds them
CheckoutConditions ==
  /\ token
  /\ cart # <<>>
  /\ DefaultAddress(addresses) # <<>>

\* C18: handleCheckout submits an order only when the user is logged in, the
\* client's cart is not empty and the user has a default address, and the
\* order carries that default address; when one of the three conditions fails
\* it returns false without starting a payment or sending an order request.
C18_CheckoutConditions ==
  [][ ret'.op = "handleCheckout"
      => /\ ~CheckoutConditions
              => /\ ret'.result = "false"
                 /\ payments' = payments
                 /\ orders' = orders
                 /\ last' = last \/ last'.op \notin {"POST /orders", "DELETE /cart/clear"}
         /\ orders' # orders
              => /\ CheckoutConditions
                 /\ payments' # payments
                 /\ Len(orders') = Len(orders) + 1
                 /\ orders'[Len(orders')].deliveryAddress = DefaultAddress(addresses)
    ]_vars

\* a checkout has returned the order it placed, delivered to the default address
C18_Witness ==
  /\ ret = Returned("handleCheckout", "order")
  /\ Len(orders) = 1
  /\ orders[1].deliveryAddress = DefaultAddress(addresses)
  /\ orders[1].deliveryAddress # <<>>
  /\ Len(addresses) = 2
  /\ payments # <<>>
  /\ cart = <<>>

\* C19: when handleCheckout returns false, that call has added no order on
\* the service.
C19_FalseMeansNoOrder ==
  [][ (ret'.op = "handleCheckout" /\ ret'.result = "false") => orders' = orders ]_vars

----------------------------------------------------------------------------
(* Properties of the address book *)

\* C17: after any sequence of address additions and updates, every stored
\* address has a phone of exactly 10 digits and a pincode of exactly 6 digits,
\* whether it came through the client's addAddress or through requests sent
\* to POST /addresses and PUT /addresses/:id.
C17_PhoneAndPincodeDigits ==
  \A i \in DOMAIN addresses :
    /\ IsDigits(addresses[i].phone, PhoneDigits)
    /\ IsDigits(addresses[i].pincode, PincodeDigits)

\* C21: whenever a checkout has both started a payment and had its order
\* recorded, the amount it handed to the payment step equals the total recorded
\* on that order, whatever other tabs did to the stored cart before.
C21_PaidAmountIsOrderTotal ==
  [][(Len(payments') = Len(payments) + 1 /\ Len(orders') = Len(orders) + 1)
       => payments'[Len(payments')].amount = orders'[Len(orders')].total]_vars

\* C22: every recorded order whose stored paymentMethod is 'cod' has
\* paymentStatus 'pending', and every other recorded order has paymentStatus
\* 'completed'.
C22_StatusFollowsStoredMethod ==
  \A i \in DOMAIN orders :
    orders[i].paymentStatus = IF orders[i].paymentMethod = "cod" THEN "pending" ELSE "completed"

\* the item names and quantities of a cart, in order
NamesAndQuantities(c) == [i \in DOMAIN c |-> <<c[i].name, c[i].quantity>>]

\* C23: after the same addToCart, removeFromCart and updateCartItemQuantity
\* calls from an empty cart, the guest's local cart and the cart stored for the
\* logged-in client hold the same item names with the same quantities in the
\* same order.
C23_GuestCartEqualsStoredCart ==
  NamesAndQuantities(cart) = NamesAndQuantities(userCart)

\* two items, the first added twice or raised, right after an update
C23_Witness ==
  /\ ret.op = "updateCartItemQuantity"
  /\ Len(cart) = 2
  /\ cart[1].quantity > 1
  /\ cart[2].quantity = 1
  /\ userCart # <<>>

====
